---- MODULE Spec2Model ----
(***************************************************************************)
(* Model of antenna/breakpad_resource.py: the breakpad submission pipeline *)
(* (on_post -> get_throttle_result -> add_to_queue -> process_queue ->     *)
(* save_crash_to_storage) running on gevent's cooperative scheduler.       *)
(*                                                                         *)
(* Greenlets switch only at I/O, so every action below is the code that    *)
(* runs between two suspension points: a whole on_post, a worker from one  *)
(* storage call to the next.                                               *)
(***************************************************************************)
EXTENDS Integers, Sequences, FiniteSets, TLC

\* ---------------------------------------------------------------- bounds
\* number of POST requests the model sends
MaxPosts == 3
\* total number of storage calls that raise
MaxFails == 1
\* value of the concurrent_saves option in the model (>= 1, positive_int)
concurrent_saves == 2
\* number of parts of a multipart body given to extract_payload alone
MaxParts == 3

\* ------------------------------------------- throttler results (imported)
\* antenna.throttler is imported, not defined, by breakpad_resource.py; the
\* integer codes are the ones the data model documents (0=ACCEPT, 1=DEFER).
ACCEPT == 0
DEFER == 1
REJECT == 2

\* falcon.HTTP_200
HTTP_200 == 200
HTTP_500 == 500

\* ------------------------------------------------------- python values
\* A raw_crash value is a str (sequence of one-character strings), an int,
\* or missing.  The three are kept apart, as Python keeps '0' and 0 apart.
Absent == [t |-> "absent", i |-> 0, s |-> <<>>]
Text(s) == [t |-> "text", i |-> 0, s |-> s]
IntV(i) == [t |-> "int", i |-> i, s |-> <<>>]
\* a bytes value (what cgi.FieldStorage gives for a part with a filename)
Bytes(b) == [t |-> "bytes", i |-> 0, s |-> b]

\* x is c  (identity with a small-int constant: true only of that int)
PyIs(v, c) == v.t = "int" /\ v.i = c

Digits == {"0", "1", "2", "3", "4", "5", "6", "7", "8", "9"}

DigitVal(c) ==
  CASE c = "0" -> 0 [] c = "1" -> 1 [] c = "2" -> 2 [] c = "3" -> 3
    [] c = "4" -> 4 [] c = "5" -> 5 [] c = "6" -> 6 [] c = "7" -> 7
    [] c = "8" -> 8 [] c = "9" -> 9

RECURSIVE LStrip(_)
LStrip(s) == IF s # <<>> /\ Head(s) = " " THEN LStrip(Tail(s)) ELSE s

RECURSIVE RStrip(_)
RStrip(s) ==
  IF s # <<>> /\ s[Len(s)] = " " THEN RStrip(SubSeq(s, 1, Len(s) - 1)) ELSE s

RECURSIVE DigitsVal(_, _)
DigitsVal(s, acc) ==
  IF s = <<>> THEN acc ELSE DigitsVal(Tail(s), 10 * acc + DigitVal(Head(s)))

\* int(text): surrounding blanks are dropped, one optional sign, then one or
\* more decimal digits; anything else raises ValueError (ok = FALSE).
PyInt(txt) ==
  LET s == RStrip(LStrip(txt))
      signed == s # <<>> /\ Head(s) \in {"+", "-"}
      d == IF signed THEN Tail(s) ELSE s
      ok == d # <<>> /\ \A k \in 1..Len(d) : d[k] \in Digits
      mag == IF ok THEN DigitsVal(d, 0) ELSE 0
  IN [ok |-> ok,
      val |-> IF signed /\ Head(s) = "-" THEN 0 - mag ELSE mag]

\* value of raw_crash[k] converted by int(): an int converts to itself
PyIntV(v) == IF v.t = "int" THEN [ok |-> TRUE, val |-> v.i] ELSE PyInt(v.s)

\* ------------------------------------------------------------ raw_crash
\* The keys of raw_crash the pipeline reads or writes.  A key that is not in
\* the dict has the value Absent.
\* dump_checksums is the dict under that key as a set of <<name, checksum>>
\* pairs ({} when the key is missing: the key is made with its first entry).
RawCrash(lp, rate, thr, uuid) ==
  [legacy_processing |-> lp, throttle_rate |-> rate,
   Throttleable |-> thr, uuid |-> uuid, dump_checksums |-> {}]

EmptyCrash == RawCrash(Absent, Absent, Absent, Absent)

\* dicts with text keys, as sets of <<key, value>> pairs
Keys(d) == { e[1] : e \in d }
DictPut(d, k, v) == { e \in d : e[1] # k } \cup { <<k, v>> }
DictGet(d, k) == (CHOOSE e \in d : e[1] = k)[2]

\* ------------------------------------------------------ get_throttle_result
\* variant of AlreadyThrottled: the result is tested against all three codes
AlreadyThrottled_any_result(raw_crash) ==
  /\ raw_crash.legacy_processing # Absent
  /\ raw_crash.throttle_rate # Absent
  /\ PyIntV(raw_crash.legacy_processing).ok
  /\ PyIntV(raw_crash.legacy_processing).val \in {ACCEPT, DEFER, REJECT}
  /\ PyIntV(raw_crash.throttle_rate).ok
  /\ 0 <= PyIntV(raw_crash.throttle_rate).val
  /\ PyIntV(raw_crash.throttle_rate).val <= 100

\* lines 286-295: both keys present, both parse, result in (ACCEPT, DEFER)
\* and 0 <= throttle_rate <= 100: the try block reaches its return
AlreadyThrottled(raw_crash) ==
  /\ raw_crash.legacy_processing # Absent
  /\ raw_crash.throttle_rate # Absent
  /\ PyIntV(raw_crash.legacy_processing).ok
  /\ PyIntV(raw_crash.legacy_processing).val \in {ACCEPT, DEFER}
  /\ PyIntV(raw_crash.throttle_rate).ok
  /\ 0 <= PyIntV(raw_crash.throttle_rate).val
  /\ PyIntV(raw_crash.throttle_rate).val <= 100

\* lines 297-300: the try block was entered and raised ValueError
BadThrottleValues(raw_crash) ==
  /\ raw_crash.legacy_processing # Absent
  /\ raw_crash.throttle_rate # Absent
  /\ ~AlreadyThrottled(raw_crash)

\* variant of IsThrottleable0: compared with the integer 0
IsThrottleable0_int(raw_crash) == raw_crash.Throttleable = IntV(0)

\* line 302: raw_crash.get('Throttleable', None) == '0'
IsThrottleable0(raw_crash) == raw_crash.Throttleable = Text(<<"0">>)

\* lines 315-317: save the results in the raw_crash itself
SaveResults(raw_crash, result, throttle_rate) ==
  [raw_crash EXCEPT !.legacy_processing = IntV(result),
                    !.throttle_rate = IntV(throttle_rate)]

\* get_throttle_result(raw_crash); th is what self.throttler.throttle would
\* return for this raw_crash.  The value is the returned triple together
\* with the effects: raw_crash as the call leaves it, the increments of the
\* two counters, and the number of calls made to the throttler.
get_throttle_result(raw_crash, th) ==
  IF AlreadyThrottled(raw_crash)
  THEN [result |-> PyIntV(raw_crash.legacy_processing).val,
        rule_name |-> "ALREADY_THROTTLED",
        throttle_rate |-> PyIntV(raw_crash.throttle_rate).val,
        raw_crash |-> raw_crash,
        bad_throttle_values |-> 0, throttleable_0 |-> 0, throttled |-> 0]
  ELSE IF IsThrottleable0(raw_crash)
  THEN [result |-> ACCEPT, rule_name |-> "THROTTLEABLE_0",
        throttle_rate |-> 100,
        raw_crash |-> SaveResults(raw_crash, ACCEPT, 100),
        bad_throttle_values |-> IF BadThrottleValues(raw_crash) THEN 1 ELSE 0,
        throttleable_0 |-> 1, throttled |-> 0]
  ELSE [result |-> th.result, rule_name |-> th.rule_name,
        throttle_rate |-> th.throttle_rate,
        raw_crash |-> SaveResults(raw_crash, th.result, th.throttle_rate),
        bad_throttle_values |-> IF BadThrottleValues(raw_crash) THEN 1 ELSE 0,
        throttleable_0 |-> 0, throttled |-> 1]

\* ------------------------------------------------------------ requests
\* dump_id_prefix option (default)
dump_id_prefix == "bp-"

\* A request: content_type is <<>> (no header) or the stripped parts of
\* content_type.split(';', 1), a parameter part being <<name=, value>>;
\* content_length is the Content-Length header (0: missing or zero);
\* gzip_valid tells whether zlib.decompress accepts the body and data_length
\* is the length of what it returns; form is fs.list, the parts that
\* cgi.FieldStorage finds in the (decompressed) body.
WellFormedType == <<"multipart/form-data", <<"boundary=", "x">> >>

Request(content_type, content_length, content_encoding, gzip_valid, data_length, form) ==
  [content_type |-> content_type, content_length |-> content_length,
   content_encoding |-> content_encoding, gzip_valid |-> gzip_valid,
   data_length |-> data_length, form |-> form]

\* one item of fs.list: a part without a filename has a str value, a part
\* with a filename a bytes value; type is the part's Content-Type
\* (text/plain when the part declares none)
Part(name, type, value) == [name |-> name, type |-> type, value |-> value]

\* lines 188-221: the conditions under which extract_payload returns {}, {}
ReturnsEmptyCrash(req) ==
  \/ req.content_type = <<>>
  \/ Len(req.content_type) # 2
  \/ req.content_type[1] # "multipart/form-data"
  \/ req.content_type[2][1] # "boundary="
  \/ req.content_length = 0
  \/ (req.content_encoding = "gzip" /\ ~req.gzip_valid)

\* antenna.util.de_null: the text without its U+0000 characters ("NUL")
RECURSIVE de_null(_)
de_null(s) ==
  IF s = <<>> THEN <<>>
  ELSE IF Head(s) = "NUL" THEN de_null(Tail(s))
  ELSE <<Head(s)>> \o de_null(Tail(s))

\* hashlib.md5(value).hexdigest(): the digest of a byte sequence
Md5Hex(b) == <<"md5">> \o b

\* raw_crash[name] = value for the keys the pipeline tracks (a text under
\* 'dump_checksums' is kept as the one pair <<"(text)", text>>)
SetKey(raw_crash, name, value) ==
  IF name = "legacy_processing"
  THEN [raw_crash EXCEPT !.legacy_processing = value]
  ELSE IF name = "throttle_rate"
  THEN [raw_crash EXCEPT !.throttle_rate = value]
  ELSE IF name = "Throttleable"
  THEN [raw_crash EXCEPT !.Throttleable = value]
  ELSE IF name = "uuid" THEN [raw_crash EXCEPT !.uuid = value]
  ELSE IF name = "dump_checksums"
  THEN [raw_crash EXCEPT !.dump_checksums = {<<"(text)", value.s>>}]
  ELSE raw_crash

\* variant of PutChecksum: the first checksum of a name is kept
PutChecksum_keep_first(checksums, name, value) ==
  IF name \in Keys(checksums) THEN checksums
  ELSE DictPut(checksums, name, Md5Hex(value))

\* lines 258-259: raw_crash.setdefault('dump_checksums', {})[name] = checksum
PutChecksum(checksums, name, value) ==
  DictPut(checksums, name, Md5Hex(value))

\* line 251: the part is taken as a dump
IsDump(item) ==
  /\ item.type # ""
  /\ (item.type = "application/octet-stream" \/ item.value.t = "bytes")

\* lines 245-263: the loop over fs.list from item k on; acc holds raw_crash,
\* dumps and whether an exception left the loop (hashlib.md5 raises
\* TypeError when it is given a str)
RECURSIVE WalkParts(_, _, _)
WalkParts(list, k, acc) ==
  IF k > Len(list) \/ acc.raised THEN acc
  ELSE IF list[k].name = "dump_checksums" THEN WalkParts(list, k + 1, acc)
  ELSE IF IsDump(list[k])
  THEN IF list[k].value.t # "bytes"
       THEN [acc EXCEPT !.raised = TRUE]
       ELSE WalkParts(list, k + 1,
              [acc EXCEPT
                 !.dumps = DictPut(acc.dumps, list[k].name, list[k].value.s),
                 !.raw_crash.dump_checksums =
                    PutChecksum(acc.raw_crash.dump_checksums, list[k].name,
                                list[k].value.s)])
  ELSE WalkParts(list, k + 1,
         [acc EXCEPT !.raw_crash =
            SetKey(acc.raw_crash, list[k].name,
                   Text(de_null(list[k].value.s)))])

NoSample == [name |-> "", value |-> 0]
\* str(n) of a length n
PyStr(n) == <<"str", n>>
\* nothing written into req.env
NoEnv == [ORIG_CONTENT_LENGTH |-> 0, CONTENT_LENGTH |-> PyStr(0)]

\* variant of EmptyPayload: the parser fails on a malformed payload
EmptyPayload_raises(incrs) ==
  [raw_crash |-> EmptyCrash, dumps |-> {}, raised |-> TRUE,
   incrs |-> incrs, histogram |-> NoSample, env |-> NoEnv]

\* what extract_payload returns when it returns {}, {}
EmptyPayload(incrs) ==
  [raw_crash |-> EmptyCrash, dumps |-> {}, raised |-> FALSE,
   incrs |-> incrs, histogram |-> NoSample, env |-> NoEnv]

\* lines 226-231: content_length is set to len(data) before the histogram
\* call, which therefore records the length of the decompressed data
GzipSample(req) ==
  [name |-> "crash_size.compressed", value |-> req.data_length]

\* what extract_payload returns (or raises) after the loop over fs.list
Payload(walked, incrs, histogram, env) ==
  [raw_crash |-> walked.raw_crash, dumps |-> walked.dumps,
   raised |-> walked.raised, incrs |-> incrs, histogram |-> histogram,
   env |-> env]

\* extract_payload(req): raw_crash and dumps it returns (or raised, when an
\* exception leaves it), the counters it increments, the histogram sample
\* it records and what it writes into req.env
extract_payload(req) ==
  IF \/ req.content_type = <<>>
     \/ Len(req.content_type) # 2
     \/ req.content_type[1] # "multipart/form-data"
     \/ req.content_type[2][1] # "boundary="
     \/ req.content_length = 0
  THEN EmptyPayload(<<>>)
  ELSE IF req.content_encoding = "gzip"
  THEN IF ~req.gzip_valid
       THEN EmptyPayload(<<"gzipped_crash", "bad_gzipped_crash">>)
       ELSE Payload(WalkParts(req.form, 1,
                              [raw_crash |-> EmptyCrash, dumps |-> {},
                               raised |-> FALSE]),
                    <<"gzipped_crash">>, GzipSample(req),
                    [ORIG_CONTENT_LENGTH |-> req.content_length,
                     CONTENT_LENGTH |-> PyStr(req.data_length)])
  ELSE Payload(WalkParts(req.form, 1,
                         [raw_crash |-> EmptyCrash, dumps |-> {},
                          raised |-> FALSE]),
               <<>>,
               [name |-> "crash_size.uncompressed",
                value |-> req.content_length],
               NoEnv)

\* antenna.util.create_crash_id(timestamp, throttle_result): a fresh id that
\* carries the throttle result; n stands for the timestamp.
NumStr(n) ==
  CASE n = 0 -> "0" [] n = 1 -> "1" [] n = 2 -> "2" [] n = 3 -> "3"
    [] n = 4 -> "4" [] n = 5 -> "5" [] n = 6 -> "6" [] n = 7 -> "7"
    [] n = 8 -> "8" [] OTHER -> "9"

create_crash_id(n, throttle_result) ==
  Text(<<"id", NumStr(n), NumStr(throttle_result)>>)

\* the throttle marker of a crash id: the digit at its fixed place
ThrottleMarker(crash_id) == crash_id.s[3]

\* ------------------------------------------------------------ SaveQueue
\* variant of SaveQueueAdd: insert(0, item) instead of append(item)
SaveQueueAdd_front(queue, item) == <<item>> \o queue

\* SaveQueue.add
SaveQueueAdd(queue, item) == Append(queue, item)

\* variant of SaveQueueNext: pop() instead of pop(0)
SaveQueueNext_lifo(queue) ==
  [item |-> queue[Len(queue)], queue |-> SubSeq(queue, 1, Len(queue) - 1)]

\* SaveQueue.next on a non-empty queue: the item returned, the queue left
SaveQueueNext(queue) == [item |-> Head(queue), queue |-> Tail(queue)]

\* --------------------------------------------------------------- state
VARIABLES
  save_queue,       \* self.save_queue._queue: POST numbers of the reports
  pool,             \* greenlets in self.pipeline_pool
  wpc,              \* greenlet -> position of its process_queue call
  wcrash,           \* greenlet -> crash_report it holds (0: none)
  nposts,           \* POSTs handled so far
  outcome,          \* POST number -> "none", "rejected", "enqueued", "raised"
  last,             \* locals and response of the latest on_post
  emitted,          \* mymetrics.incr calls of the latest step, in order
  save_crash_count, \* total of the save_crash.count increments
  saved,            \* reports for which save_crash_to_storage returned
  calls,            \* POST number -> storage calls made for its report
  first_attempts,   \* reports in the order of their first save_dumps call
  fails,            \* storage calls that raised so far
  reports,          \* POST number -> its CrashReport while it is referenced
  warg,             \* greenlet -> first argument of its storage calls
  tin, tout,        \* argument and value of a get_throttle_result application
  pin, pout         \* argument and outcome of an extract_payload application

vars == <<save_queue, pool, wpc, wcrash, nposts, outcome, last, emitted,
          save_crash_count, saved, calls, first_attempts, fails, reports,
          warg, tin, tout, pin, pout>>

Posts == 1..MaxPosts
\* names for the process_queue greenlets: one more than the pool admits
Slots == 1..(concurrent_saves + 1)

NoResp == [status |-> 0, content_type |-> "", body |-> <<>>]
NoRequest == Request(<<>>, 0, "", FALSE, 0, <<>>)
NoLast ==
  [req |-> NoRequest, result |-> -1, rule_name |-> "", throttle_rate |-> -1,
   raw_crash |-> EmptyCrash, dumps |-> {}, parsed_uuid |-> Absent,
   histogram |-> NoSample, crash_id |-> Absent, resp |-> NoResp]

\* CrashReport(raw_crash, dumps, crash_id), of which the pipeline reads
\* crash_id and raw_crash['uuid']
CrashReport(raw_crash, crash_id) ==
  [crash_id |-> crash_id, uuid |-> raw_crash.uuid]
NoReport == [crash_id |-> Absent, uuid |-> Absent]

\* variant of free_count: off by one
free_count_off_by_one(pl) ==
  IF concurrent_saves - Cardinality(pl) + 1 > 0
  THEN concurrent_saves - Cardinality(pl) + 1 ELSE 0

\* Pool.free_count(): max(0, size - len(pool))
free_count(pl) ==
  IF concurrent_saves - Cardinality(pl) > 0
  THEN concurrent_saves - Cardinality(pl) ELSE 0

\* the name a spawned greenlet gets
FreeSlot(pl) == CHOOSE w \in Slots \ pl : \A v \in Slots \ pl : w <= v

\* ------------------------------------------------------------- inputs
\* the text part a form has for a field (none when the field is not sent)
Field(name, value) ==
  IF value = Absent THEN <<>> ELSE <<Part(name, "text/plain", value)>>

\* form parts of the requests the pipeline model receives
Form(lp, rate, thr, uuid) ==
  Field("legacy_processing", lp) \o Field("throttle_rate", rate)
    \o Field("Throttleable", thr) \o Field("uuid", uuid)

\* a uuid a client sends: the digit at the marker's place says ACCEPT
ClientUuid == Text(<<"c", "7", "0">>)

Minidump ==
  Part("upload_file_minidump", "application/octet-stream", Bytes(<<"M">>))

PostForms ==
  { <<>>,
    Form(Text(<<"0">>), Text(<<"5", "0">>), Absent, Absent),
    Form(Text(<<"1">>), Text(<<"1", "0", "0">>), Absent, Absent),
    Form(Text(<<"2">>), Text(<<"5", "0">>), Absent, Absent),
    Form(Absent, Absent, Text(<<"0">>), Absent),
    Form(Absent, Absent, Absent, ClientUuid),
    <<Minidump>>,
    <<Part("upload_file_minidump", "application/octet-stream",
           Text(<<"M">>))>> }

Requests ==
  { Request(WellFormedType, 9, "", FALSE, 9, f) : f \in PostForms }
  \cup { Request(WellFormedType, 9, "gzip", TRUE, 20, <<Minidump>>),
         Request(<<>>, 9, "", FALSE, 9,
                 Form(Text(<<"1">>), Text(<<"5", "0">>), Absent, Absent)),
         Request(<<"text/plain", <<"boundary=", "x">> >>, 9, "", FALSE, 9,
                 <<>>),
         Request(<<"multipart/form-data">>, 9, "", FALSE, 9, <<>>),
         Request(<<"multipart/form-data", <<"charset=", "x">> >>, 9, "",
                 FALSE, 9, <<>>),
         Request(WellFormedType, 0, "", FALSE, 0, <<>>),
         Request(WellFormedType, 9, "gzip", FALSE, 0,
                 Form(Text(<<"1">>), Text(<<"5", "0">>), Absent, Absent)) }

\* what self.throttler.throttle may return
Throttle(result, rule_name, throttle_rate) ==
  [result |-> result, rule_name |-> rule_name, throttle_rate |-> throttle_rate]

ThrottlerAnswers ==
  { Throttle(ACCEPT, "accept_rule", 100),
    Throttle(DEFER, "defer_rule", 10),
    Throttle(REJECT, "reject_rule", 0) }

\* ------------------------------------------------------------- on_post
\* lines 354-362: the counter on_post increments for raw_crash
\* ['legacy_processing'] (none when no branch of the if/elif chain is taken)
ThrottleCounter(lp) ==
  IF PyIs(lp, ACCEPT) THEN <<"throttle.accept">>
  ELSE IF PyIs(lp, DEFER) THEN <<"throttle.defer">>
  ELSE IF PyIs(lp, REJECT) THEN <<"throttle.reject">>
  ELSE <<>>

\* variant of EndsProcessing: the decision compared as text
EndsProcessing_text(lp) == lp = Text(<<"2">>)

\* lines 360-366: the branch that ends processing
EndsProcessing(lp) == ThrottleCounter(lp) = <<"throttle.reject">>

\* an exception leaves on_post: falcon has no handler for it and the
\* client gets 500 Internal Server Error
ErrorResponse ==
  [status |-> HTTP_500, content_type |-> "text/plain", body |-> <<>>]

\* lines 324, 364-365
DiscardedResponse ==
  [status |-> HTTP_200, content_type |-> "text/plain",
   body |-> <<"Discarded=1">>]

\* lines 324, 370-371: 'CrashID=%s%s\n' % (dump_id_prefix, crash_id)
CrashIDResponse(crash_id) ==
  [status |-> HTTP_200, content_type |-> "text/plain",
   body |-> <<"CrashID=", dump_id_prefix>> \o crash_id.s \o <<"\n">>]

\* the counters get_throttle_result increments, in order
ThrottleResultIncrs(g) ==
  (IF g.bad_throttle_values = 1 THEN <<"throttle.bad_throttle_values">>
   ELSE <<>>)
  \o (IF g.throttleable_0 = 1 THEN <<"throttleable_0">> ELSE <<>>)

\* add_to_queue(crash_report) on queue q, pool pl, greenlet positions pcs
add_to_queue(q, pl, pcs, crash_report) ==
  IF free_count(pl) > 0
  THEN [save_queue |-> SaveQueueAdd(q, crash_report),
        pool |-> pl \cup {FreeSlot(pl)},
        wpc |-> [pcs EXCEPT ![FreeSlot(pl)] = "start"]]
  ELSE [save_queue |-> SaveQueueAdd(q, crash_report),
        pool |-> pl, wpc |-> pcs]

\* variant of CrashIdFor: an id is generated whatever the client sent
CrashIdFor_always_generated(p, g) == create_crash_id(p, g.result)

\* lines 339-347: the crash id on_post uses
CrashIdFor(p, g) ==
  IF g.raw_crash.uuid # Absent THEN g.raw_crash.uuid
  ELSE create_crash_id(p, g.result)

\* on_post(req, resp), th being the throttler's answer for this crash
OnPost(req, th) ==
  /\ nposts < MaxPosts
  /\ \E p \in {nposts + 1}, payload \in {extract_payload(req)} :
     IF payload.raised
     THEN /\ nposts' = p
          /\ last' = [NoLast EXCEPT !.req = req,
                                    !.histogram = payload.histogram,
                                    !.resp = ErrorResponse]
          /\ emitted' = payload.incrs
          /\ outcome' = [outcome EXCEPT ![p] = "raised"]
          /\ UNCHANGED <<save_queue, pool, wpc, reports>>
     ELSE
       \E g \in {get_throttle_result(payload.raw_crash, th)} :
       \E crash_id \in {CrashIdFor(p, g)},
          counter \in {ThrottleCounter(g.raw_crash.legacy_processing)},
          ends \in {EndsProcessing(g.raw_crash.legacy_processing)},
          added \in {add_to_queue(save_queue, pool, wpc, p)} :
         /\ nposts' = p
         /\ last' = [req |-> req,
                     result |-> g.result, rule_name |-> g.rule_name,
                     throttle_rate |-> g.throttle_rate,
                     raw_crash |-> [g.raw_crash EXCEPT !.uuid = crash_id],
                     dumps |-> payload.dumps,
                     parsed_uuid |-> payload.raw_crash.uuid,
                     histogram |-> payload.histogram,
                     crash_id |-> crash_id,
                     resp |-> IF ends THEN DiscardedResponse
                              ELSE CrashIDResponse(crash_id)]
         /\ emitted' = payload.incrs \o <<"incoming_crash">>
                         \o ThrottleResultIncrs(g) \o counter
         /\ IF ends
            THEN /\ outcome' = [outcome EXCEPT ![p] = "rejected"]
                 /\ UNCHANGED <<save_queue, pool, wpc, reports>>
            ELSE /\ outcome' = [outcome EXCEPT ![p] = "enqueued"]
                 /\ reports' =
                      [reports EXCEPT ![p] =
                         CrashReport([g.raw_crash EXCEPT !.uuid = crash_id],
                                     crash_id)]
                 /\ save_queue' = added.save_queue
                 /\ pool' = added.pool
                 /\ wpc' = added.wpc
  /\ UNCHANGED <<wcrash, save_crash_count, saved, calls, first_attempts,
                 fails, warg, tin, tout, pin, pout>>

\* ---------------------------------------------------------- process_queue
\* variant of ProcessQueueLoop: the head of the queue is read, not removed
ProcessQueueLoop_peek(w, q, pl, pcs) ==
  IF Len(q) > 0
  THEN /\ save_queue' = q
       /\ pool' = pl
       /\ wpc' = [pcs EXCEPT ![w] = "save_dumps"]
       /\ wcrash' = [wcrash EXCEPT ![w] = Head(q)]
       /\ warg' = [warg EXCEPT ![w] = reports[Head(q)].crash_id]
       /\ calls' = [calls EXCEPT ![Head(q)].save_dumps = @ + 1]
       /\ first_attempts' =
            IF calls[Head(q)].save_dumps = 0
            THEN Append(first_attempts, Head(q))
            ELSE first_attempts
  ELSE /\ save_queue' = q
       /\ pool' = pl
       /\ wpc' = [pcs EXCEPT ![w] = "done"]
       /\ wcrash' = [wcrash EXCEPT ![w] = 0]
       /\ warg' = [warg EXCEPT ![w] = Absent]
       /\ UNCHANGED <<calls, first_attempts>>

\* lines 389-392: the loop test, save_queue.next() and the call of
\* save_crash_to_storage up to its first storage call, for the greenlet in
\* w with queue q, pool pl and positions pcs
ProcessQueueLoop(w, q, pl, pcs) ==
  IF Len(q) > 0
  THEN /\ save_queue' = SaveQueueNext(q).queue
       /\ pool' = pl
       /\ wpc' = [pcs EXCEPT ![w] = "save_dumps"]
       /\ wcrash' = [wcrash EXCEPT ![w] = SaveQueueNext(q).item]
       /\ warg' = [warg EXCEPT ![w] = reports[SaveQueueNext(q).item].crash_id]
       /\ calls' = [calls EXCEPT ![SaveQueueNext(q).item].save_dumps = @ + 1]
       /\ first_attempts' =
            IF calls[SaveQueueNext(q).item].save_dumps = 0
            THEN Append(first_attempts, SaveQueueNext(q).item)
            ELSE first_attempts
  ELSE /\ save_queue' = q
       /\ pool' = pl
       /\ wpc' = [pcs EXCEPT ![w] = "done"]
       /\ wcrash' = [wcrash EXCEPT ![w] = 0]
       /\ warg' = [warg EXCEPT ![w] = Absent]
       /\ UNCHANGED <<calls, first_attempts>>

\* the hub switches to a spawned greenlet: process_queue begins
WorkerStart(w) ==
  /\ wpc[w] = "start"
  /\ ProcessQueueLoop(w, save_queue, pool, wpc)
  /\ emitted' = <<>>
  /\ UNCHANGED <<nposts, outcome, last, save_crash_count, saved, fails,
                 reports, tin, tout, pin, pout>>

\* crashstorage.save_dumps returns: save_raw_crash is called (lines 408-417)
SaveDumpsOk(w) ==
  /\ wpc[w] = "save_dumps"
  /\ wpc' = [wpc EXCEPT ![w] = "save_raw_crash"]
  /\ calls' = [calls EXCEPT ![wcrash[w]].save_raw_crash = @ + 1]
  /\ emitted' = <<>>
  /\ UNCHANGED <<save_queue, pool, wcrash, nposts, outcome, last,
                 save_crash_count, saved, first_attempts, fails, reports,
                 warg, tin, tout, pin, pout>>

\* variant of Retry: the exception is swallowed without add_to_queue
Retry_drop(w) ==
  /\ fails < MaxFails
  /\ fails' = fails + 1
  /\ ProcessQueueLoop(w, save_queue, pool, wpc)
  /\ emitted' = <<>>
  /\ UNCHANGED <<nposts, outcome, last, save_crash_count, saved, reports,
                 tin, tout, pin, pout>>

\* lines 393-394: the storage call raised; re-enqueue and loop
Retry(w) ==
  /\ fails < MaxFails
  /\ fails' = fails + 1
  /\ LET added == add_to_queue(save_queue, pool, wpc, wcrash[w])
     IN ProcessQueueLoop(w, added.save_queue, added.pool, added.wpc)
  /\ emitted' = <<>>
  /\ UNCHANGED <<nposts, outcome, last, save_crash_count, saved, reports,
                 tin, tout, pin, pout>>

\* variant of SaveDumpsFail: the exception is swallowed inside
\* save_crash_to_storage, which goes on to save_raw_crash
SaveDumpsFail_goes_on(w) ==
  /\ wpc[w] = "save_dumps"
  /\ fails < MaxFails
  /\ fails' = fails + 1
  /\ wpc' = [wpc EXCEPT ![w] = "save_raw_crash"]
  /\ calls' = [calls EXCEPT ![wcrash[w]].save_raw_crash = @ + 1]
  /\ emitted' = <<>>
  /\ UNCHANGED <<save_queue, pool, wcrash, nposts, outcome, last,
                 save_crash_count, saved, first_attempts, reports, warg,
                 tin, tout, pin, pout>>

\* crashstorage.save_dumps raises
SaveDumpsFail(w) ==
  /\ wpc[w] = "save_dumps"
  /\ Retry(w)

\* crashstorage.save_raw_crash raises
SaveRawCrashFail(w) ==
  /\ wpc[w] = "save_raw_crash"
  /\ Retry(w)

\* variant of SaveRawCrashOk: the report is put back after its save too
SaveRawCrashOk_requeues(w) ==
  /\ wpc[w] = "save_raw_crash"
  /\ saved' = saved \cup {wcrash[w]}
  /\ emitted' = <<"save_crash.count">>
  /\ save_crash_count' = save_crash_count + 1
  /\ reports' = reports
  /\ LET added == add_to_queue(save_queue, pool, wpc, wcrash[w])
     IN ProcessQueueLoop(w, added.save_queue, added.pool, added.wpc)
  /\ UNCHANGED <<nposts, outcome, last, fails, tin, tout, pin, pout>>

\* crashstorage.save_raw_crash returns: lines 424-428, then the loop
SaveRawCrashOk(w) ==
  /\ wpc[w] = "save_raw_crash"
  /\ saved' = saved \cup {wcrash[w]}
  /\ emitted' = <<"save_crash.count">>
  /\ save_crash_count' = save_crash_count + 1
  /\ reports' = [reports EXCEPT ![wcrash[w]] = NoReport]
  /\ ProcessQueueLoop(w, save_queue, pool, wpc)
  /\ UNCHANGED <<nposts, outcome, last, fails, tin, tout, pin, pout>>

\* gevent runs the link the pool put on the greenlet (Group._discard) from
\* the hub, after process_queue has returned: only then does the greenlet
\* leave the pool and free_count() grow
PoolDiscard(w) ==
  /\ wpc[w] = "done"
  /\ pool' = pool \ {w}
  /\ wpc' = [wpc EXCEPT ![w] = "none"]
  /\ emitted' = <<>>
  /\ UNCHANGED <<save_queue, wcrash, nposts, outcome, last,
                 save_crash_count, saved, calls, first_attempts, fails,
                 reports, warg, tin, tout, pin, pout>>

\* ------------------------------------------------------- specifications
NoThrottleInput == [raw_crash |-> EmptyCrash, th |-> Throttle(ACCEPT, "", 0)]

NoResult ==
  [result |-> -1, rule_name |-> "", throttle_rate |-> -1,
   raw_crash |-> EmptyCrash, bad_throttle_values |-> 0,
   throttleable_0 |-> 0, throttled |-> 0]

\* the resource after __init__
PipelineInit ==
  /\ save_queue = <<>>
  /\ pool = {}
  /\ wpc = [w \in Slots |-> "none"]
  /\ wcrash = [w \in Slots |-> 0]
  /\ nposts = 0
  /\ outcome = [p \in Posts |-> "none"]
  /\ last = NoLast
  /\ emitted = <<>>
  /\ save_crash_count = 0
  /\ saved = {}
  /\ calls = [p \in Posts |-> [save_dumps |-> 0, save_raw_crash |-> 0]]
  /\ first_attempts = <<>>
  /\ fails = 0
  /\ reports = [p \in Posts |-> NoReport]
  /\ warg = [w \in Slots |-> Absent]

\* pout before extract_payload has been applied
NoPayload ==
  [raw_crash |-> EmptyCrash, dumps |-> {}, raised |-> FALSE, incrs |-> <<>>,
   histogram |-> [name |-> "(unset)", value |-> 0], env |-> NoEnv]

Init ==
  /\ PipelineInit
  /\ tin = NoThrottleInput
  /\ tout = NoResult
  /\ pin = NoRequest
  /\ pout = NoPayload

Next ==
  \/ \E req \in Requests, th \in ThrottlerAnswers : OnPost(req, th)
  \/ \E w \in Slots : WorkerStart(w)
  \/ \E w \in Slots : SaveDumpsOk(w)
  \/ \E w \in Slots : SaveDumpsFail(w)
  \/ \E w \in Slots : SaveRawCrashOk(w)
  \/ \E w \in Slots : SaveRawCrashFail(w)
  \/ \E w \in Slots : PoolDiscard(w)

Spec == Init /\ [][Next]_vars

\* Scheduling: the hub runs every greenlet that is ready and every link it
\* has queued, and every storage call returns or raises; nothing obliges a
\* client to send another POST.  Storage raises at most MaxFails times.
Fairness ==
  \A w \in Slots :
    /\ WF_vars(WorkerStart(w))
    /\ WF_vars(SaveDumpsOk(w) \/ SaveDumpsFail(w))
    /\ WF_vars(SaveRawCrashOk(w) \/ SaveRawCrashFail(w))
    /\ WF_vars(PoolDiscard(w))

FairSpec == Init /\ [][Next]_vars /\ Fairness

\* ------------------------------------------- get_throttle_result alone
\* values a client can put in the three fields
LegacyProcessingTexts ==
  { Absent, Text(<<"0">>), Text(<<"1">>), Text(<<"2">>), Text(<<"x">>),
    Text(<<" ", "1">>), Text(<<"-", "1">>), Text(<<"+", "0">>), Text(<<>>) }

ThrottleRateTexts ==
  { Absent, Text(<<"0">>), Text(<<"5", "0">>), Text(<<"1", "0", "0">>),
    Text(<<"1", "0", "1">>), Text(<<"-", "1">>), Text(<<"y">>),
    Text(<<" ", "7", " ">>) }

ThrottleableTexts == { Absent, Text(<<"0">>), Text(<<"1">>) }

ThrottleInputs ==
  { [raw_crash |-> RawCrash(lp, rate, thr, Absent), th |-> th] :
      lp \in LegacyProcessingTexts, rate \in ThrottleRateTexts,
      thr \in ThrottleableTexts, th \in ThrottlerAnswers }

ThrottleInit ==
  /\ PipelineInit
  /\ tin \in ThrottleInputs
  /\ tout = NoResult
  /\ pin = NoRequest
  /\ pout = NoPayload

\* one call get_throttle_result(raw_crash)
Decide ==
  /\ tout = NoResult
  /\ tout' = get_throttle_result(tin.raw_crash, tin.th)
  /\ UNCHANGED <<save_queue, pool, wpc, wcrash, nposts, outcome, last,
                 emitted, save_crash_count, saved, calls, first_attempts,
                 fails, reports, warg, tin, pin, pout>>

ThrottleNext == Decide

ThrottleSpec == ThrottleInit /\ [][ThrottleNext]_vars

\* ------------------------------------------------ extract_payload alone
\* the parts a multipart body may hold
PartNames == { "upload_file_minidump", "memory_report", "dump_checksums",
               "uuid" }
PartTypes == { "text/plain", "application/octet-stream" }
PartValues == { Text(<<"a", "NUL", "b">>), Bytes(<<"AA">>), Bytes(<<"BB">>) }

Parts ==
  { Part(name, type, value) :
      name \in PartNames, type \in PartTypes, value \in PartValues }

PartLists == UNION { [1..n -> Parts] : n \in 0..MaxParts }

\* headers and body lengths: well-formed plain, gzip that decompresses to
\* more or to fewer bytes, and each malformation lines 188-221 tell apart
ParseHeaders ==
  { Request(WellFormedType, 9, "", FALSE, 9, <<>>),
    Request(WellFormedType, 9, "gzip", TRUE, 20, <<>>),
    Request(WellFormedType, 9, "gzip", TRUE, 4, <<>>),
    Request(WellFormedType, 9, "gzip", FALSE, 0, <<>>),
    Request(<<>>, 9, "", FALSE, 9, <<>>),
    Request(<<"text/plain", <<"boundary=", "x">> >>, 9, "", FALSE, 9, <<>>),
    Request(<<"multipart/form-data">>, 9, "", FALSE, 9, <<>>),
    Request(WellFormedType, 0, "", FALSE, 0, <<>>) }

ParseInputs ==
  { [h EXCEPT !.form = f] : h \in ParseHeaders, f \in PartLists }

ParseInit ==
  /\ PipelineInit
  /\ tin = NoThrottleInput
  /\ tout = NoResult
  /\ pin \in ParseInputs
  /\ pout = NoPayload

\* one call extract_payload(req)
Parse ==
  /\ pout = NoPayload
  /\ pout' = extract_payload(pin)
  /\ UNCHANGED <<save_queue, pool, wpc, wcrash, nposts, outcome, last,
                 emitted, save_crash_count, saved, calls, first_attempts,
                 fails, reports, warg, tin, tout, pin>>

ParseNext == Parse

ParseSpec == ParseInit /\ [][ParseNext]_vars

\* ---------------------------------------------------------------- claims
Range(f) == { f[i] : i \in DOMAIN f }
InQueue(p) == p \in Range(save_queue)
Held(p) == \E w \in Slots : wpc[w] \in {"save_dumps", "save_raw_crash"}
                             /\ wcrash[w] = p
Count(seq, names) == Cardinality({ i \in DOMAIN seq : seq[i] \in names })
ThrottleCounters == {"throttle.accept", "throttle.defer", "throttle.reject"}
CounterOf(result) ==
  CASE result = ACCEPT -> "throttle.accept"
    [] result = DEFER -> "throttle.defer"
    [] result = REJECT -> "throttle.reject"
    [] OTHER -> ""

\* the client sent legacy_processing and throttle_rate and both are usable
ClientThrottleValid(rc) ==
  /\ rc.legacy_processing # Absent
  /\ rc.throttle_rate # Absent
  /\ PyIntV(rc.legacy_processing).ok
  /\ PyIntV(rc.throttle_rate).ok
  /\ PyIntV(rc.legacy_processing).val \in {ACCEPT, DEFER}
  /\ PyIntV(rc.throttle_rate).val \in 0..100

\* C1: in every reachable state the pool holds at most concurrent_saves
\* greenlets, whatever the interleaving of POSTs, worker steps, storage
\* successes and failures.
C1_PoolBounded ==
  /\ Cardinality(pool) <= concurrent_saves
  /\ Cardinality({ w \in Slots : wpc[w] # "none" }) <= concurrent_saves

\* the pool is full, a storage call has failed and reports are waiting
C1_Witness ==
  /\ Cardinality(pool) = concurrent_saves
  /\ fails > 0
  /\ Len(save_queue) > 0

C3_EventuallySaved ==
  <>[](nposts < MaxPosts =>
         /\ \A p \in Posts : outcome[p] = "enqueued" => p \in saved
         /\ save_queue = <<>>
         /\ pool = {})

\* C4: a POST whose decision is REJECT leaves the queue and the pool as they
\* were, increments throttle.reject, answers 'Discarded=1', and no storage
\* call is ever made for it.
C4_RejectDiscards ==
  [][/\ (nposts' = nposts + 1 /\ last'.result = REJECT) =>
          /\ save_queue' = save_queue
          /\ pool' = pool
          /\ wpc' = wpc
          /\ outcome'[nposts'] = "rejected"
          /\ Count(emitted', {"throttle.reject"}) = 1
          /\ last'.resp.body = <<"Discarded=1">>
     /\ \A p \in Posts : outcome'[p] = "rejected" =>
          /\ calls'[p] = [save_dumps |-> 0, save_raw_crash |-> 0]
          /\ p \notin Range(save_queue')
          /\ \A w \in Slots : wcrash'[w] # p]_vars

\* a POST was rejected while another report has gone through storage
C4_Witness ==
  /\ last.result = REJECT
  /\ outcome[nposts] = "rejected"
  /\ saved # {}

\* C5: every POST yields status 200 and content-type text/plain, and no
\* step other than a POST (in particular no storage failure) changes a
\* response.
C5_Always200 ==
  [][/\ nposts' > 0 => /\ last'.resp.status = 200
                       /\ last'.resp.content_type = "text/plain"
     /\ nposts' = nposts => last'.resp = last.resp]_vars

\* C6: first attempts are FIFO: the reports appear in first_attempts in the
\* order of their POSTs, and a report has its first save_dumps call only
\* after every report enqueued before it had its own.
C6_FirstAttemptsFIFO ==
  /\ \A i, j \in DOMAIN first_attempts :
       i < j => first_attempts[i] < first_attempts[j]
  /\ \A k \in DOMAIN first_attempts : \A q \in Posts :
       (q < first_attempts[k] /\ outcome[q] = "enqueued") =>
         \E i \in 1..(k - 1) : first_attempts[i] = q

\* three reports had their first attempt while retries went on and two
\* workers were saving
C6_Witness ==
  /\ Len(first_attempts) = MaxPosts
  /\ fails > 0
  /\ \E p \in Posts : calls[p].save_dumps > 1 /\ p < MaxPosts
  /\ Cardinality({ w \in Slots : wpc[w] = "save_dumps" }) >= 2

\* C7 as stated: Throttleable = "0" always gives (ACCEPT, "THROTTLEABLE_0",
\* 100), whatever the other fields.
C7_AsStated ==
  (tout # NoResult /\ tin.raw_crash.Throttleable = Text(<<"0">>)) =>
    /\ tout.result = ACCEPT
    /\ tout.rule_name = "THROTTLEABLE_0"
    /\ tout.throttle_rate = 100

\* C7: Throttleable = "0" gives (ACCEPT, "THROTTLEABLE_0", 100) whatever
\* the throttler would return, unless the map carries a usable
\* legacy_processing and throttle_rate pair.
C7_Throttleable0 ==
  (/\ tout # NoResult
   /\ tin.raw_crash.Throttleable = Text(<<"0">>)
   /\ ~ClientThrottleValid(tin.raw_crash)) =>
    /\ tout.result = ACCEPT
    /\ tout.rule_name = "THROTTLEABLE_0"
    /\ tout.throttle_rate = 100
    /\ tout.throttled = 0

\* Throttleable = "0" decided although the client sent (unusable) throttle
\* values and the throttler would have rejected
C7_Witness ==
  /\ tout.rule_name = "THROTTLEABLE_0"
  /\ tin.raw_crash.legacy_processing # Absent
  /\ tin.raw_crash.throttle_rate # Absent
  /\ tin.th.result = REJECT

\* C8: with both legacy_processing and throttle_rate present, usable values
\* are returned as (decision, "ALREADY_THROTTLED", rate) without a call to
\* the throttler and without a bad_throttle_values increment; unusable ones
\* increment bad_throttle_values once and the decision comes from the
\* Throttleable check or the throttler.  ALREADY_THROTTLED never rejects.
C8_AlreadyThrottled ==
  /\ (/\ tout # NoResult
      /\ tin.raw_crash.legacy_processing # Absent
      /\ tin.raw_crash.throttle_rate # Absent) =>
       IF ClientThrottleValid(tin.raw_crash)
       THEN /\ tout.result = PyIntV(tin.raw_crash.legacy_processing).val
            /\ tout.rule_name = "ALREADY_THROTTLED"
            /\ tout.throttle_rate = PyIntV(tin.raw_crash.throttle_rate).val
            /\ tout.throttled = 0
            /\ tout.bad_throttle_values = 0
       ELSE /\ tout.bad_throttle_values = 1
            /\ IF tin.raw_crash.Throttleable = Text(<<"0">>)
               THEN /\ tout.result = ACCEPT
                    /\ tout.rule_name = "THROTTLEABLE_0"
                    /\ tout.throttle_rate = 100
                    /\ tout.throttled = 0
               ELSE /\ tout.result = tin.th.result
                    /\ tout.rule_name = tin.th.rule_name
                    /\ tout.throttle_rate = tin.th.throttle_rate
                    /\ tout.throttled = 1
  /\ tout.rule_name = "ALREADY_THROTTLED" => tout.result \in {ACCEPT, DEFER}
  /\ (tin.raw_crash.legacy_processing = Absent
      \/ tin.raw_crash.throttle_rate = Absent) => tout.bad_throttle_values = 0

\* the client's DEFER was taken over although the throttler would reject
C8_Witness ==
  /\ tout.rule_name = "ALREADY_THROTTLED"
  /\ tout.result = DEFER
  /\ tin.th.result = REJECT

\* C9: after the throttle decision raw_crash['legacy_processing'] and
\* raw_crash['throttle_rate'] hold the returned integers on every branch,
\* so an enqueued report carries an integer ACCEPT or DEFER and an integer
\* rate in 0..100.
C9_ResultsWritten ==
  nposts > 0 =>
    /\ last.raw_crash.legacy_processing = IntV(last.result)
    /\ last.raw_crash.throttle_rate = IntV(last.throttle_rate)
    /\ outcome[nposts] = "enqueued" =>
         /\ last.raw_crash.legacy_processing \in {IntV(ACCEPT), IntV(DEFER)}
         /\ last.raw_crash.throttle_rate \in { IntV(r) : r \in 0..100 }

\* C10: every POST increments exactly one of throttle.accept,
\* throttle.defer, throttle.reject: the one matching the decision that
\* get_throttle_result returned.
C10_OneCounter ==
  (emitted # <<>> /\ Head(emitted) = "incoming_crash") =>
    /\ Count(emitted, ThrottleCounters) = 1
    /\ Count(emitted, {CounterOf(last.result)}) = 1

\* ---------------------------------------------------------------- C11
\* what on_post leaves for a payload the parser returned empty: no dumps,
\* a raw_crash with the keys the core writes and nothing a client sent
EmptyReportLeft(l) ==
  /\ l.dumps = {}
  /\ l.parsed_uuid = Absent
  /\ l.raw_crash = [EmptyCrash EXCEPT !.legacy_processing = IntV(l.result),
                                      !.throttle_rate = IntV(l.throttle_rate),
                                      !.uuid = l.crash_id]

\* the POST of this step was answered with a fresh crash id and its report
\* was put at the tail of the queue (or was taken from it in the same step)
AnsweredAndEnqueued ==
  /\ last'.crash_id = create_crash_id(nposts', last'.result)
  /\ \A q \in Posts : reports[q].crash_id # last'.crash_id
  /\ last'.resp = CrashIDResponse(last'.crash_id)
  /\ outcome'[nposts'] = "enqueued"
  /\ reports'[nposts'] = [crash_id |-> last'.crash_id, uuid |-> last'.crash_id]
  /\ save_queue' = Append(save_queue, nposts')

\* C11 as stated: every POST with a malformed payload (no Content-Type, a
\* Content-Type that is not multipart/form-data with a boundary, no or zero
\* Content-Length, gzip that does not decompress) is parsed to empty
\* metadata and dumps, answered 'CrashID=<prefix><id>\n' with a fresh id,
\* and its report is enqueued.
C11_AsStated ==
  [][(nposts' = nposts + 1 /\ ReturnsEmptyCrash(last'.req))
       => (EmptyReportLeft(last') /\ AnsweredAndEnqueued)]_vars

\* C11 amended: a POST with a malformed payload is parsed to empty metadata
\* and dumps; unless the throttler's decision for the empty metadata is
\* REJECT, it is answered 'CrashID=<prefix><id>\n' with a fresh id and its
\* report is enqueued; when the decision is REJECT it is answered
\* 'Discarded=1' and nothing is enqueued.
C11_MalformedStillStored ==
  [][(nposts' = nposts + 1 /\ ReturnsEmptyCrash(last'.req))
       => /\ EmptyReportLeft(last')
          /\ last'.result # REJECT => AnsweredAndEnqueued
          /\ last'.result = REJECT
               => /\ last'.resp = DiscardedResponse
                  /\ save_queue' = save_queue
                  /\ reports' = reports]_vars

\* a report made from a gzip body that did not decompress has been saved
C11_Witness ==
  /\ nposts > 0
  /\ ReturnsEmptyCrash(last.req)
  /\ last.req.content_encoding = "gzip"
  /\ nposts \in saved
  /\ calls[nposts].save_raw_crash > 0

\* ---------------------------------------------------------------- C12
\* the greenlets that are inside a storage call
Saving == { w \in Slots : wpc[w] \in {"save_dumps", "save_raw_crash"} }

\* C12: the id acknowledged is the id stored under.  A POST that is not
\* rejected is answered 'CrashID=' + dump_id_prefix + crashId + newline,
\* crashId being the uuid of the report's metadata and the crash_id of the
\* enqueued report: the uuid the client sent when there is one, a generated
\* id otherwise; the report keeps it for as long as it exists, and it is the
\* first argument of every save_dumps and save_raw_crash call for the report.
C12_AcknowledgedIdStored ==
  [][/\ (nposts' = nposts + 1 /\ outcome'[nposts'] = "enqueued")
          => /\ last'.resp.body =
                  <<"CrashID=", "bp-">> \o reports'[nposts'].crash_id.s
                    \o <<"\n">>
             /\ reports'[nposts'].crash_id.t = "text"
             /\ reports'[nposts'].uuid = reports'[nposts'].crash_id
             /\ last'.raw_crash.uuid = reports'[nposts'].crash_id
             /\ reports'[nposts'].crash_id =
                  IF last'.parsed_uuid # Absent THEN last'.parsed_uuid
                  ELSE create_crash_id(nposts', last'.result)
     /\ \A p \in Posts :
          reports[p] # NoReport
            => \/ reports'[p] = reports[p]
               \/ reports'[p] = NoReport /\ p \in saved'
     /\ \A w \in Slots :
          (wpc'[w] \in {"save_dumps", "save_raw_crash"})
            => /\ reports'[wcrash'[w]] # NoReport
               /\ warg'[w] = reports'[wcrash'[w]].crash_id]_vars

\* save_raw_crash is being called with the uuid a client sent, which was
\* acknowledged to it, while a report with a generated id has been saved
C12_Witness ==
  /\ \E w \in Saving : wpc[w] = "save_raw_crash" /\ warg[w] = ClientUuid
  /\ last.resp.body = <<"CrashID=", "bp-">> \o ClientUuid.s \o <<"\n">>
  /\ saved # {}

\* ---------------------------------------------------------------- C13
\* the places of the form whose part is stored as a dump under name n
DumpPlaces(form, n) ==
  { k \in DOMAIN form :
      /\ form[k].name = n
      /\ n # "dump_checksums"
      /\ (form[k].type = "application/octet-stream"
            \/ form[k].value.t = "bytes") }

\* the last of a non-empty set of places
LastPlace(places) == CHOOSE k \in places : \A j \in places : j <= k

\* C13: in what extract_payload returns, dump_checksums has exactly the
\* names of dumps, one entry each, every entry being the checksum of the
\* bytes dumps holds under the name; dumps holds, for each name, the bytes
\* of the last part that form has for it; so nothing a client sent under
\* the name dump_checksums is in the metadata.
C13_ChecksumsFromParser ==
  (pout # NoPayload /\ ~pout.raised) =>
    /\ Keys(pout.raw_crash.dump_checksums) = Keys(pout.dumps)
    /\ Cardinality(pout.raw_crash.dump_checksums) = Cardinality(Keys(pout.dumps))
    /\ Cardinality(pout.dumps) = Cardinality(Keys(pout.dumps))
    /\ \A n \in Keys(pout.dumps) :
         /\ DictGet(pout.raw_crash.dump_checksums, n)
              = Md5Hex(DictGet(pout.dumps, n))
         /\ DumpPlaces(pin.form, n) # {}
         /\ DictGet(pout.dumps, n)
              = pin.form[LastPlace(DumpPlaces(pin.form, n))].value.s
    /\ ~ReturnsEmptyCrash(pin) =>
         \A n \in PartNames : DumpPlaces(pin.form, n) # {} => n \in Keys(pout.dumps)

\* a form was parsed that has a text field dump_checksums and two dumps of
\* one name with different bytes, the later of which is the one kept
C13_Witness ==
  /\ pout # NoPayload
  /\ ~pout.raised
  /\ \E i, j, k \in DOMAIN pin.form :
       /\ pin.form[i].name = "dump_checksums"
       /\ pin.form[i].value.t = "text"
       /\ pin.form[i].type = "text/plain"
       /\ j < k
       /\ pin.form[j] = Part("upload_file_minidump",
                             "application/octet-stream", Bytes(<<"AA">>))
       /\ pin.form[k] = Part("upload_file_minidump", "text/plain",
                             Bytes(<<"BB">>))
  /\ pout.dumps = {<<"upload_file_minidump", <<"BB">> >>}
  /\ pout.raw_crash.dump_checksums
       = {<<"upload_file_minidump", <<"md5", "BB">> >>}

\* ---------------------------------------------------------------- C18
\* C18: for a request that declares gzip and whose body decompresses, the
\* crash_size.compressed sample is the compressed length (the Content-Length
\* the request came with), ORIG_CONTENT_LENGTH is that same length, and
\* CONTENT_LENGTH becomes the text of the decompressed length.
C18_CompressedSample ==
  (/\ pout # NoPayload
   /\ pin.content_encoding = "gzip"
   /\ pin.gzip_valid
   /\ ~ReturnsEmptyCrash(pin))
    => /\ pout.histogram =
            [name |-> "crash_size.compressed", value |-> pin.content_length]
       /\ pout.env.ORIG_CONTENT_LENGTH = pin.content_length
       /\ pout.env.CONTENT_LENGTH = PyStr(pin.data_length)

\* ---------------------------------------------------------------- C14
\* C14: a report is completely saved at most once.  save_crash.count grows
\* by one exactly in a step in which a save_raw_crash call returns, for the
\* report of that call, which was not saved before, and never in a step in
\* which a storage call raises; so it always equals the number of saved
\* reports.  A saved report stays saved, is in the queue or in a worker's
\* hands never again, and no storage call is made for it any more.
C14_SavedOnce ==
  [][/\ save_crash_count' = Cardinality(saved')
     /\ fails' # fails => save_crash_count' = save_crash_count
     /\ save_crash_count' # save_crash_count
          => \E w \in Slots :
               /\ wpc[w] = "save_raw_crash"
               /\ wcrash[w] \notin saved
               /\ calls[wcrash[w]].save_dumps > 0
               /\ saved' = saved \cup {wcrash[w]}
               /\ save_crash_count' = save_crash_count + 1
               /\ emitted' = <<"save_crash.count">>
     /\ \A p \in saved :
          /\ p \in saved'
          /\ calls'[p] = calls[p]
          /\ p \notin Range(save_queue')
          /\ \A w \in Slots : wcrash'[w] # p]_vars

\* two reports are saved, one of them in its second attempt
C14_Witness ==
  /\ save_crash_count = 2
  /\ \E p \in saved : calls[p].save_dumps = 2 /\ calls[p].save_raw_crash >= 1
  /\ fails = 1

\* ---------------------------------------------------------------- C15
\* C15: save_dumps comes before save_raw_crash in every attempt.  A
\* save_raw_crash call for a report begins only in a step in which the
\* save_dumps call of the worker holding it returns without raising; a
\* worker that takes a report up begins with save_dumps; and a report whose
\* save_raw_crash raises is back in the queue, or its next attempt has
\* begun with a save_dumps call, never with save_raw_crash.
C15_DumpsBeforeRawCrash ==
  [][\A p \in Posts :
       /\ calls'[p].save_raw_crash <= calls'[p].save_dumps
       /\ calls'[p].save_raw_crash # calls[p].save_raw_crash
            => \E w \in Slots :
                 /\ wpc[w] = "save_dumps" /\ wcrash[w] = p
                 /\ wpc'[w] = "save_raw_crash" /\ wcrash'[w] = p
                 /\ fails' = fails
                 /\ calls'[p].save_raw_crash = calls[p].save_raw_crash + 1
                 /\ calls'[p].save_dumps = calls[p].save_dumps
       /\ \A w \in Slots :
            (wpc'[w] = "save_raw_crash" /\ wcrash'[w] = p)
              => /\ wcrash[w] = p
                 /\ wpc[w] \in {"save_dumps", "save_raw_crash"}
                 /\ wpc[w] = "save_raw_crash" => calls'[p] = calls[p]
       /\ (\E w \in Slots :
             /\ wpc[w] = "save_raw_crash" /\ wcrash[w] = p
             /\ fails' = fails + 1
             /\ wpc'[w] # "save_raw_crash")
            => /\ p \notin saved'
               /\ \/ p \in Range(save_queue')
                  \/ \E v \in Slots :
                       /\ wcrash'[v] = p /\ wpc'[v] = "save_dumps"
                       /\ calls'[p].save_dumps = calls[p].save_dumps + 1
                       /\ calls'[p].save_raw_crash = calls[p].save_raw_crash]_vars

\* the save_raw_crash call of a report raised and its second attempt is in
\* its save_dumps call
C15_Witness ==
  \E w \in Slots :
    /\ wpc[w] = "save_dumps"
    /\ calls[wcrash[w]] = [save_dumps |-> 2, save_raw_crash |-> 1]
    /\ fails = 1

\* ---------------------------------------------------------------- C16
\* the storage call of greenlet w raises in this step: w is in a storage
\* call, a failure is counted and w is the greenlet that begins an attempt
StorageCallRaises(w) ==
  /\ wpc[w] \in {"save_dumps", "save_raw_crash"}
  /\ fails' = fails + 1
  /\ wpc'[w] = "save_dumps"
  /\ calls'[wcrash'[w]].save_dumps = calls[wcrash'[w]].save_dumps + 1

\* C16: a report whose attempt fails goes to the tail of the queue.  When
\* the storage call of a worker raises while other reports are queued, the
\* worker goes on with the report at the head, and the failed report stands
\* in the queue behind every report that was queued, in their old order; it
\* is taken up again at once only when the queue was empty.  In every step
\* the queue changes by at most one report added at its tail and at most
\* one taken from its head, so the reports before the failed one leave the
\* queue before it does.
C16_FailedReportToTail ==
  [][/\ \A w \in Slots :
          StorageCallRaises(w)
            => IF save_queue = <<>>
               THEN wcrash'[w] = wcrash[w] /\ save_queue' = <<>>
               ELSE /\ wcrash'[w] = Head(save_queue)
                    /\ wcrash'[w] # wcrash[w]
                    /\ save_queue' = Tail(save_queue) \o <<wcrash[w]>>
     /\ \E added \in {<<>>} \cup { <<p>> : p \in Posts } :
          \/ save_queue' = save_queue \o added
          \/ /\ save_queue \o added # <<>>
             /\ save_queue' = Tail(save_queue \o added)]_vars

\* a report whose attempt failed stands in the queue behind a report that
\* was posted during that attempt and has not been attempted yet
C16_Witness ==
  \E i, j \in DOMAIN save_queue :
    /\ i < j
    /\ save_queue[i] > save_queue[j]
    /\ calls[save_queue[j]].save_dumps > 0
    /\ calls[save_queue[i]].save_dumps = 0
    /\ fails > 0

\* ---------------------------------------------------------------- C17
\* C17: ownership of a report is exclusive.  In every state a report
\* occurs at most once in the queue, at most one greenlet holds it, it is
\* never in the queue and held at once, and a report that is in the queue
\* or held was enqueued by its POST and is not saved yet.
C17_ExclusiveOwnership ==
  \A p \in Posts :
    /\ Cardinality({ i \in DOMAIN save_queue : save_queue[i] = p }) <= 1
    /\ Cardinality({ w \in Slots : wcrash[w] = p }) <= 1
    /\ ~(InQueue(p) /\ Held(p))
    /\ (InQueue(p) \/ Held(p)) => (outcome[p] = "enqueued" /\ p \notin saved)
    /\ \A w \in Slots : wcrash[w] = p => wpc[w] \in {"save_dumps", "save_raw_crash"}

\* two workers are in storage calls for two reports, one of them in a
\* second attempt, while a third report waits in the queue
C17_Witness ==
  /\ \E v, w \in Slots :
       /\ v # w
       /\ wpc[v] = "save_raw_crash" /\ wpc[w] = "save_dumps"
       /\ wcrash[v] # wcrash[w]
       /\ calls[wcrash[w]].save_dumps = 2
  /\ Len(save_queue) = 1

\* ---------------------------------------------------------------- C19
\* C19: no report is stranded without a worker: in every state between two
\* steps, a save queue that is not empty comes with at least one greenlet
\* in the pool.
C19_NoStrandedReport == save_queue # <<>> => pool # {}

\* ---------------------------------------------------------------- C20
\* C20: the throttle marker in the crash id of an enqueued report is the
\* digit of the decision get_throttle_result returned for it, whether the
\* id was generated or is the uuid the client sent.
C20_MarkerAgrees ==
  (nposts > 0 /\ outcome[nposts] = "enqueued")
    => ThrottleMarker(last.crash_id) = NumStr(last.result)

====
